---- MODULE Spec2Model ----
(***************************************************************************)
(* The implied-growth-rate calculator (Gordon Growth Model) of             *)
(* src/src/App.jsx: four numeric inputs held in React state, validated on  *)
(* every render, from which the model (implied growth, consistency check,  *)
(* ten-year cash-flow projection), the chart rows and the rendered panels  *)
(* are derived.                                                            *)
(*                                                                         *)
(* JavaScript numbers are modelled as exact rationals num/den over         *)
(* arbitrary-size integers (sequences of base-1000 limbs), so that the     *)
(* arithmetic of the source (+, -, *, /, Math.abs, Math.pow, comparisons)  *)
(* is computed, not assumed.  Rounding of IEEE doubles is not modelled.    *)
(***************************************************************************)
EXTENDS Integers, Sequences, FiniteSets, TLC

\* inputs: the React state; output: what the last render computed from it
VARIABLES inputs, output

vars == <<inputs, output>>

\* the values of the last render
inputErrors == output.inputErrors
model == output.model
chartData == output.chartData
view == output.view

(***************************************************************************)
(* Natural numbers of any size: little-endian sequences of limbs, no       *)
(* leading zero limb; zero is the empty sequence.                          *)
(***************************************************************************)
Base == 10 * 10 * 10

Max(x, y) == IF x >= y THEN x ELSE y
Min(x, y) == IF x <= y THEN x ELSE y

RECURSIVE NatOfInt(_)
NatOfInt(k) == IF k = 0 THEN <<>> ELSE <<k % Base>> \o NatOfInt(k \div Base)

RECURSIVE Trim(_)
Trim(a) ==
  IF Len(a) > 0 /\ a[Len(a)] = 0 THEN Trim(SubSeq(a, 1, Len(a) - 1)) ELSE a

Limb(a, i) == IF i <= Len(a) THEN a[i] ELSE 0

RECURSIVE Carry(_, _, _)
Carry(raw, k, c) ==
  IF k > Len(raw) THEN NatOfInt(c)
  ELSE LET t == raw[k] + c
       IN  <<t % Base>> \o Carry(raw, k + 1, t \div Base)

NAdd(a, b) ==
  Trim(Carry([i \in 1..Max(Len(a), Len(b)) |-> Limb(a, i) + Limb(b, i)], 1, 0))

RECURSIVE NCmpFrom(_, _, _)
NCmpFrom(a, b, i) ==
  IF i = 0 THEN 0
  ELSE IF Limb(a, i) > Limb(b, i) THEN 1
  ELSE IF Limb(a, i) < Limb(b, i) THEN -1
  ELSE NCmpFrom(a, b, i - 1)

\* -1, 0 or 1 as a < b, a = b or a > b
NCmp(a, b) == NCmpFrom(a, b, Max(Len(a), Len(b)))

RECURSIVE Borrow(_, _, _, _)
Borrow(a, b, k, c) ==
  IF k > Len(a) THEN <<>>
  ELSE LET t == a[k] - Limb(b, k) - c
       IN  IF t < 0 THEN <<t + Base>> \o Borrow(a, b, k + 1, 1)
           ELSE <<t>> \o Borrow(a, b, k + 1, 0)

\* a - b for a >= b
NSub(a, b) == Trim(Borrow(a, b, 1, 0))

RECURSIVE Conv(_, _, _, _, _)
Conv(a, b, k, i, hi) ==
  IF i > hi THEN 0 ELSE a[i] * b[k + 1 - i] + Conv(a, b, k, i + 1, hi)

NMul(a, b) ==
  IF Len(a) = 0 \/ Len(b) = 0 THEN <<>>
  ELSE Trim(Carry([k \in 1..(Len(a) + Len(b) - 1) |->
                     Conv(a, b, k, Max(1, k + 1 - Len(b)), Min(Len(a), k))],
                  1, 0))

(***************************************************************************)
(* Integers of any size: a sign and a magnitude; zero is not negative.     *)
(***************************************************************************)
IntOf(k) == [neg |-> k < 0, mag |-> NatOfInt(IF k < 0 THEN -k ELSE k)]

INeg(a) == [neg |-> ~a.neg /\ a.mag # <<>>, mag |-> a.mag]

IAdd(a, b) ==
  IF a.neg = b.neg THEN [neg |-> a.neg, mag |-> NAdd(a.mag, b.mag)]
  ELSE LET c == NCmp(a.mag, b.mag)
       IN  IF c = 0 THEN [neg |-> FALSE, mag |-> <<>>]
           ELSE IF c > 0 THEN [neg |-> a.neg, mag |-> NSub(a.mag, b.mag)]
           ELSE [neg |-> b.neg, mag |-> NSub(b.mag, a.mag)]

ISub(a, b) == IAdd(a, INeg(b))

IMul(a, b) ==
  LET m == NMul(a.mag, b.mag)
  IN  [neg |-> (a.neg # b.neg) /\ m # <<>>, mag |-> m]

\* -1, 0 or 1 as a < b, a = b or a > b
ICmp(a, b) ==
  LET d == ISub(a, b)
  IN  IF d.mag = <<>> THEN 0 ELSE IF d.neg THEN -1 ELSE 1

(***************************************************************************)
(* Numbers: num/den with den > 0, not necessarily in lowest terms, so two  *)
(* numbers are compared with NumEq, NumLt, ..., never with =.              *)
(***************************************************************************)
Num(n, d) == [num |-> IntOf(n), den |-> NatOfInt(d)]

Pos(n) == [neg |-> FALSE, mag |-> n]

NumAdd(a, b) ==
  [num |-> IAdd(IMul(a.num, Pos(b.den)), IMul(b.num, Pos(a.den))),
   den |-> NMul(a.den, b.den)]

NumNeg(a) == [num |-> INeg(a.num), den |-> a.den]

NumSub(a, b) == NumAdd(a, NumNeg(b))

NumMul(a, b) == [num |-> IMul(a.num, b.num), den |-> NMul(a.den, b.den)]

\* a / b for b # 0 (every division of the source is by a validated divisor)
NumDiv(a, b) ==
  LET n == IMul(a.num, Pos(b.den))
  IN  [num |-> IF b.num.neg THEN INeg(n) ELSE n, den |-> NMul(a.den, b.num.mag)]

NumCmp(a, b) == ICmp(IMul(a.num, Pos(b.den)), IMul(b.num, Pos(a.den)))

NumEq(a, b) == NumCmp(a, b) = 0
NumLt(a, b) == NumCmp(a, b) < 0
NumLe(a, b) == NumCmp(a, b) <= 0
NumGt(a, b) == NumCmp(a, b) > 0
NumGe(a, b) == NumCmp(a, b) >= 0

NumAbs(a) == [num |-> Pos(a.num.mag), den |-> a.den]

\* JavaScript truthiness of a (finite) number: every number but zero
Truthy(a) == a.num.mag # <<>>

Zero == Num(0, 1)
One == Num(1, 1)

\* <<b^0, b^1, ..., b^n>>, each power the previous one times b
RECURSIVE Powers(_, _)
Powers(b, n) ==
  IF n = 0 THEN <<One>>
  ELSE LET p == Powers(b, n - 1) IN Append(p, NumMul(p[n], b))

(***************************************************************************)
(* Text of a number input: a sequence of characters, empty or a decimal    *)
(* literal (an optional "-", digits, an optional "." and digits).          *)
(***************************************************************************)
DigitValue(c) ==
  CASE c = "0" -> 0 [] c = "1" -> 1 [] c = "2" -> 2 [] c = "3" -> 3
    [] c = "4" -> 4 [] c = "5" -> 5 [] c = "6" -> 6 [] c = "7" -> 7
    [] c = "8" -> 8 [] c = "9" -> 9

RECURSIVE GCD(_, _)
GCD(a, b) == IF b = 0 THEN a ELSE GCD(b, a % b)

\* <<digits read as an integer, 10^(number of digits after the point)>>
RECURSIVE ParseFrom(_, _, _, _, _)
ParseFrom(s, i, n, d, frac) ==
  IF i > Len(s) THEN <<n, d>>
  ELSE IF s[i] = "." THEN ParseFrom(s, i + 1, n, d, TRUE)
  ELSE ParseFrom(s, i + 1, n * 10 + DigitValue(s[i]),
                 IF frac THEN d * 10 ELSE d, frac)

\* +value: the empty string converts to 0, a decimal literal to its value
ToNumber(value) ==
  IF value = <<>> THEN Zero
  ELSE LET neg == value[1] = "-"
           p == ParseFrom(value, IF neg THEN 2 ELSE 1, 0, 1, FALSE)
           g == GCD(p[1], p[2])
       IN  Num((IF neg THEN -1 ELSE 1) * (p[1] \div g), p[2] \div g)

Fields == {"marketPrice", "dividendAmount", "requiredReturn", "expectedDividend"}

\* the texts tried in each field: below, at and above each end of its range
FieldTexts(field) ==
  CASE field = "marketPrice" ->
         {<<>>, <<"0", ".", "9", "9">>, <<"1">>, <<"1", "0", "0">>,
          <<"5", "0", "0">>, <<"5", "0", "0", ".", "0", "1">>}
    [] field = "dividendAmount" ->
         {<<>>, <<"-", "0", ".", "0", "1">>, <<"0", ".", "9", "9">>,
          <<"5", "0">>, <<"5", "0", ".", "0", "1">>}
    [] field = "requiredReturn" ->
         {<<>>, <<"-", "1">>, <<"1">>, <<"2", "5">>,
          <<"2", "5", ".", "0", "1">>}
    [] field = "expectedDividend" ->
         {<<>>, <<"-", "0", ".", "0", "1">>, <<"1">>, <<"5", "0">>,
          <<"5", "0", ".", "0", "1">>}

(***************************************************************************)
(* GrowthRateCalculator: state, validation, model, chart rows, rendering.  *)
(***************************************************************************)
InitialInputs ==
  [marketPrice      |-> ToNumber(<<"5", "4", ".", "5", "6">>),
   dividendAmount   |-> ToNumber(<<"3", ".", "6", "0">>),
   requiredReturn   |-> ToNumber(<<"7", ".", "4", "0">>),
   expectedDividend |-> ToNumber(<<"3", ".", "5", "0">>)]

NoErrors == [k \in {} |-> ""]

\* errors[key] = message
Put(errors, key, message) ==
  [k \in DOMAIN errors \cup {key} |-> IF k = key THEN message ELSE errors[k]]

\* the lower limit tested against 0 instead of 1
MarketPriceErrors_AcceptsBelowOne(in, errors) ==
  IF ~Truthy(in.marketPrice) \/ NumLt(in.marketPrice, Zero)
  THEN Put(errors, "marketPrice", "Market price must be at least $1")
  ELSE IF NumGt(in.marketPrice, Num(500, 1))
  THEN Put(errors, "marketPrice", "Market price cannot exceed $500")
  ELSE errors

MarketPriceErrors(in, errors) ==
  IF ~Truthy(in.marketPrice) \/ NumLt(in.marketPrice, Num(1, 1))
  THEN Put(errors, "marketPrice", "Market price must be at least $1")
  ELSE IF NumGt(in.marketPrice, Num(500, 1))
  THEN Put(errors, "marketPrice", "Market price cannot exceed $500")
  ELSE errors

DividendAmountErrors(in, errors) ==
  IF NumLt(in.dividendAmount, Zero)
  THEN Put(errors, "dividendAmount", "Current dividend cannot be negative")
  ELSE IF NumGt(in.dividendAmount, Num(50, 1))
  THEN Put(errors, "dividendAmount", "Current dividend cannot exceed $50")
  ELSE errors

RequiredReturnErrors(in, errors) ==
  IF ~Truthy(in.requiredReturn) \/ NumLe(in.requiredReturn, Zero)
  THEN Put(errors, "requiredReturn", "Required return must be positive")
  ELSE IF NumGt(in.requiredReturn, Num(25, 1))
  THEN Put(errors, "requiredReturn", "Required return cannot exceed 25%")
  ELSE errors

ExpectedDividendErrors(in, errors) ==
  IF NumLt(in.expectedDividend, Zero)
  THEN Put(errors, "expectedDividend", "Expected dividend cannot be negative")
  ELSE IF NumGt(in.expectedDividend, Num(50, 1))
  THEN Put(errors, "expectedDividend", "Expected dividend cannot exceed $50")
  ELSE errors

\* the check widened to negative growth: g >= r or g < 0
FinancialErrors_RejectsNegativeGrowth(in, errors) ==
  IF NumGt(in.requiredReturn, Zero) /\ NumGt(in.expectedDividend, Zero)
       /\ NumGt(in.marketPrice, Zero)
  THEN LET impliedGrowth ==
             NumSub(NumDiv(in.requiredReturn, Num(100, 1)),
                    NumDiv(in.expectedDividend, in.marketPrice))
       IN  IF NumGe(impliedGrowth, NumDiv(in.requiredReturn, Num(100, 1)))
                \/ NumLt(impliedGrowth, Zero)
           THEN Put(errors, "financial",
                    "These inputs would result in invalid growth rate (g >= r)")
           ELSE errors
  ELSE errors

\* the check tried whatever the expected dividend
FinancialErrors_NoDividendGuard(in, errors) ==
  IF NumGt(in.requiredReturn, Zero) /\ NumGt(in.marketPrice, Zero)
  THEN LET impliedGrowth ==
             NumSub(NumDiv(in.requiredReturn, Num(100, 1)),
                    NumDiv(in.expectedDividend, in.marketPrice))
       IN  IF NumGe(impliedGrowth, NumDiv(in.requiredReturn, Num(100, 1)))
           THEN Put(errors, "financial",
                    "These inputs would result in invalid growth rate (g >= r)")
           ELSE errors
  ELSE errors

\* the "financial logic" check: g >= r, tried only for positive r, D1 and P
FinancialErrors(in, errors) ==
  IF NumGt(in.requiredReturn, Zero) /\ NumGt(in.expectedDividend, Zero)
       /\ NumGt(in.marketPrice, Zero)
  THEN LET impliedGrowth ==
             NumSub(NumDiv(in.requiredReturn, Num(100, 1)),
                    NumDiv(in.expectedDividend, in.marketPrice))
       IN  IF NumGe(impliedGrowth, NumDiv(in.requiredReturn, Num(100, 1)))
           THEN Put(errors, "financial",
                    "These inputs would result in invalid growth rate (g >= r)")
           ELSE errors
  ELSE errors

\* the checks abandoned after the first field found in error
validateInputs_StopsAtFirstError(in) ==
  LET price == MarketPriceErrors(in, NoErrors)
      dividend == DividendAmountErrors(in, NoErrors)
      return == RequiredReturnErrors(in, NoErrors)
  IN  IF DOMAIN price # {} THEN price
      ELSE IF DOMAIN dividend # {} THEN dividend
      ELSE IF DOMAIN return # {} THEN return
      ELSE FinancialErrors(in, ExpectedDividendErrors(in, NoErrors))

validateInputs(in) ==
  FinancialErrors(in,
    ExpectedDividendErrors(in,
      RequiredReturnErrors(in,
        DividendAmountErrors(in,
          MarketPriceErrors(in, NoErrors)))))

\* the absent model (the useMemo returned null)
null == [null |-> TRUE]

LastYear == 10

\* the dividend yield added instead of subtracted
ImpliedGrowth_AddsYield(in) ==
  NumAdd(NumDiv(in.requiredReturn, Num(100, 1)),
         NumDiv(in.expectedDividend, in.marketPrice))

\* the required return used as a percentage, not divided by 100
ImpliedGrowth_ReturnNotScaled(in) ==
  NumSub(in.requiredReturn, NumDiv(in.expectedDividend, in.marketPrice))

\* impliedGrowth = r - d1 / price, with r = requiredReturn / 100
ImpliedGrowth(in) ==
  NumSub(NumDiv(in.requiredReturn, Num(100, 1)),
         NumDiv(in.expectedDividend, in.marketPrice))

\* the growth applied without the principal: d0 * impliedGrowth
CalculatedD1_GrowthOnly(d0, impliedGrowth) == NumMul(d0, impliedGrowth)

CalculatedD1(d0, impliedGrowth) == NumMul(d0, NumAdd(One, impliedGrowth))

\* the tolerance compared with <= instead of <
D1Consistent_AllowsEqual(d1, calculatedD1) ==
  NumLe(NumAbs(NumSub(d1, calculatedD1)), Num(1, 100))

D1Consistent(d1, calculatedD1) ==
  NumLt(NumAbs(NumSub(d1, calculatedD1)), Num(1, 100))

\* the lower limit left out: impliedGrowth < r alone
IsValid_UpperLimitOnly(impliedGrowth, r) == NumLt(impliedGrowth, r)

\* the lower limit compared with > instead of >=
IsValid_RequiresPositiveGrowth(impliedGrowth, r) ==
  NumLt(impliedGrowth, r) /\ NumGt(impliedGrowth, Zero)

\* the upper limit compared with <= instead of <
IsValid_AllowsEqual(impliedGrowth, r) ==
  NumLe(impliedGrowth, r) /\ NumGe(impliedGrowth, Zero)

IsValid(impliedGrowth, r) == NumLt(impliedGrowth, r) /\ NumGe(impliedGrowth, Zero)

\* the exponent one short: Math.pow(1 + impliedGrowth, year - 1)
CashflowRow_PreviousPower(year, d0, price, powers) ==
  IF year = 0
  THEN [year |-> year, dividend |-> Zero, investment |-> NumNeg(price),
        total |-> NumNeg(price)]
  ELSE LET dividend == NumMul(d0, powers[year])
       IN  [year |-> year, dividend |-> dividend, investment |-> Zero,
            total |-> dividend]

\* the dividend discounted instead of compounded: d0 / Math.pow(1 + g, year)
CashflowRow_DiscountsDividend(year, d0, price, powers) ==
  IF year = 0
  THEN [year |-> year, dividend |-> Zero, investment |-> NumNeg(price),
        total |-> NumNeg(price)]
  ELSE LET dividend == NumDiv(d0, powers[year + 1])
       IN  [year |-> year, dividend |-> dividend, investment |-> Zero,
            total |-> dividend]

\* the purchase recorded as an inflow: investment: price
CashflowRow_PositiveOutlay(year, d0, price, powers) ==
  IF year = 0
  THEN [year |-> year, dividend |-> Zero, investment |-> price,
        total |-> price]
  ELSE LET dividend == NumMul(d0, powers[year + 1])
       IN  [year |-> year, dividend |-> dividend, investment |-> Zero,
            total |-> dividend]

\* the row pushed for one year of the loop; powers[year + 1] is
\* Math.pow(1 + impliedGrowth, year)
CashflowRow(year, d0, price, powers) ==
  IF year = 0
  THEN [year |-> year, dividend |-> Zero, investment |-> NumNeg(price),
        total |-> NumNeg(price)]
  ELSE LET dividend == NumMul(d0, powers[year + 1])
       IN  [year |-> year, dividend |-> dividend, investment |-> Zero,
            total |-> dividend]

\* the loop bound written year < 10
RECURSIVE CashflowLoop_StopsBeforeLastYear(_, _, _, _, _)
CashflowLoop_StopsBeforeLastYear(year, cashflows, d0, price, powers) ==
  IF year < LastYear
  THEN CashflowLoop_StopsBeforeLastYear(year + 1,
         Append(cashflows, CashflowRow(year, d0, price, powers)),
         d0, price, powers)
  ELSE cashflows

\* for (let year = 0; year <= 10; year++) cashflows.push(...)
RECURSIVE CashflowLoop(_, _, _, _, _)
CashflowLoop(year, cashflows, d0, price, powers) ==
  IF year <= LastYear
  THEN CashflowLoop(year + 1,
                    Append(cashflows, CashflowRow(year, d0, price, powers)),
                    d0, price, powers)
  ELSE cashflows

ComputeModel(in, errors) ==
  IF Cardinality(DOMAIN errors) > 0 THEN null
  ELSE LET r == NumDiv(in.requiredReturn, Num(100, 1))
           d0 == in.dividendAmount
           d1 == in.expectedDividend
           price == in.marketPrice
           impliedGrowth == ImpliedGrowth(in)
           impliedGrowthPct == NumMul(impliedGrowth, Num(100, 1))
           calculatedD1 == CalculatedD1(d0, impliedGrowth)
           powers == Powers(NumAdd(One, impliedGrowth), LastYear)
       IN  [impliedGrowth |-> impliedGrowthPct,
            cashflows     |-> CashflowLoop(0, <<>>, d0, price, powers),
            d1Consistent  |-> D1Consistent(d1, calculatedD1),
            calculatedD1  |-> calculatedD1,
            isValid       |-> IsValid(impliedGrowth, r)]

\* year.toString(): the decimal digits of a natural number
RECURSIVE DecimalString(_)
DecimalString(n) ==
  LET digit == <<"0", "1", "2", "3", "4", "5", "6", "7", "8", "9">>[(n % 10) + 1]
  IN  IF n < 10 THEN <<digit>> ELSE Append(DecimalString(n \div 10), digit)

\* the two flows exchanged
ChartRow_SwapsFlows(cf, m) ==
  [yearLabel      |-> DecimalString(cf.year),
   year           |-> cf.year,
   dividendFlow   |-> cf.investment,
   investmentFlow |-> cf.dividend,
   growthLine     |-> m.impliedGrowth]

ChartRow(cf, m) ==
  [yearLabel      |-> DecimalString(cf.year),
   year           |-> cf.year,
   dividendFlow   |-> cf.dividend,
   investmentFlow |-> cf.investment,
   growthLine     |-> m.impliedGrowth]

ComputeChartData(m) ==
  IF m = null THEN <<>>
  ELSE [i \in 1..Len(m.cashflows) |-> ChartRow(m.cashflows[i], m)]

\* the results shown for every computed model, valid or not
Render_ShowsInvalidResults(errors, m) ==
  [validationMessage |-> Cardinality(DOMAIN errors) # 0,
   fieldErrors       |-> DOMAIN errors \cap Fields,
   validityWarning   |-> m # null /\ ~m.isValid,
   consistencyNote   |-> m # null /\ ~m.d1Consistent,
   resultCard        |-> m # null,
   dataTable         |-> m # null,
   chart             |-> m # null]

\* the warning tested as !model?.isValid: shown without a model too
Render_WarnsWithoutModel(errors, m) ==
  [validationMessage |-> Cardinality(DOMAIN errors) # 0,
   fieldErrors       |-> DOMAIN errors \cap Fields,
   validityWarning   |-> m = null \/ ~m.isValid,
   consistencyNote   |-> m # null /\ ~m.d1Consistent,
   resultCard        |-> m # null /\ m.isValid,
   dataTable         |-> m # null /\ m.isValid,
   chart             |-> m # null /\ m.isValid]

\* the results shown only for a model whose D1 is consistent
Render_HidesInconsistentResults(errors, m) ==
  [validationMessage |-> Cardinality(DOMAIN errors) # 0,
   fieldErrors       |-> DOMAIN errors \cap Fields,
   validityWarning   |-> m # null /\ ~m.isValid,
   consistencyNote   |-> m # null /\ ~m.d1Consistent,
   resultCard        |-> m # null /\ m.isValid /\ m.d1Consistent,
   dataTable         |-> m # null /\ m.isValid /\ m.d1Consistent,
   chart             |-> m # null /\ m.isValid /\ m.d1Consistent]

\* which panels the returned JSX holds
Render(errors, m) ==
  [validationMessage |-> Cardinality(DOMAIN errors) # 0,
   fieldErrors       |-> DOMAIN errors \cap Fields,
   validityWarning   |-> m # null /\ ~m.isValid,
   consistencyNote   |-> m # null /\ ~m.d1Consistent,
   resultCard        |-> m # null /\ m.isValid,
   dataTable         |-> m # null /\ m.isValid,
   chart             |-> m # null /\ m.isValid]

\* one render of the component for the input record in: what the
\* function body of GrowthRateCalculator computes and returns
GrowthRateCalculator(in) ==
  LET errors == validateInputs(in)
      m == ComputeModel(in, errors)
  IN  [inputErrors |-> errors,
       model       |-> m,
       chartData   |-> ComputeChartData(m),
       view        |-> Render(errors, m)]

\* the numbers a field can hold: its initial value and the texts' values
FieldNumbers(field) ==
  {ToNumber(t) : t \in FieldTexts(field)} \cup {InitialInputs[field]}

\* the render of every input record, computed once (a render is a pure
\* function of the inputs; @@ makes the table a finite function)
outputOf ==
  [in \in [marketPrice      : FieldNumbers("marketPrice"),
           dividendAmount   : FieldNumbers("dividendAmount"),
           requiredReturn   : FieldNumbers("requiredReturn"),
           expectedDividend : FieldNumbers("expectedDividend")]
     |-> GrowthRateCalculator(in)] @@ <<>>

Init ==
  /\ inputs = InitialInputs
  /\ output = outputOf[inputs]

\* the value brought into the limits of the field's input element first
SetInput_ClampsToRange(prev, field, value) ==
  LET entered == ToNumber(value)
      lowest == IF field = "marketPrice" THEN Num(1, 1) ELSE Zero
      highest == CASE field = "marketPrice" -> Num(500, 1)
                   [] field = "requiredReturn" -> Num(25, 1)
                   [] OTHER -> Num(50, 1)
      stored == IF NumLt(entered, lowest) THEN lowest
                ELSE IF NumGt(entered, highest) THEN highest
                ELSE entered
  IN  [prev EXCEPT ![field] = stored]

\* the state updater prev => ({ ...prev, [field]: +value })
SetInput(prev, field, value) == [prev EXCEPT ![field] = ToNumber(value)]

\* the fields locked while validation errors are shown
handleInputChange_DisabledOnError(field, value) ==
  /\ DOMAIN inputErrors = {}
  /\ inputs' = SetInput(inputs, field, value)
  /\ output' = outputOf[inputs']

\* the render one change behind: computed from the inputs before the update
handleInputChange_RendersPreviousInputs(field, value) ==
  /\ inputs' = SetInput(inputs, field, value)
  /\ output' = outputOf[inputs]

\* the memoized values kept across a change: useMemo with no dependencies
handleInputChange_MemoNotRefreshed(field, value) ==
  /\ inputs' = SetInput(inputs, field, value)
  /\ output' = output

\* onChange of a field: setInputs stores +value in that field, and the
\* component renders again: validation, model, chart rows and panels
handleInputChange(field, value) ==
  /\ inputs' = SetInput(inputs, field, value)
  /\ output' = outputOf[inputs']

Next == \E field \in Fields : \E value \in FieldTexts(field) :
          handleInputChange(field, value)

Spec == Init /\ [][Next]_vars

(***************************************************************************)
(* The version of the component in src/unnamed/part_001 (function App).    *)
(* It holds the same four inputs with the same initial values and the same *)
(* handleInputChange, so it is read in the same states; its validation     *)
(* differs in the financial message and its render has no validity         *)
(* warning.                                                                *)
(***************************************************************************)
App_FinancialErrors(in, errors) ==
  IF NumGt(in.requiredReturn, Zero) /\ NumGt(in.expectedDividend, Zero)
       /\ NumGt(in.marketPrice, Zero)
  THEN LET impliedGrowth ==
             NumSub(NumDiv(in.requiredReturn, Num(100, 1)),
                    NumDiv(in.expectedDividend, in.marketPrice))
       IN  IF NumGe(impliedGrowth, NumDiv(in.requiredReturn, Num(100, 1)))
           THEN Put(errors, "financial",
                    "Inputs result in invalid growth rate (g >= r)")
           ELSE errors
  ELSE errors

\* the four range checks have the statements and messages of App.jsx
App_validateInputs(in) ==
  App_FinancialErrors(in,
    ExpectedDividendErrors(in,
      RequiredReturnErrors(in,
        DividendAmountErrors(in,
          MarketPriceErrors(in, NoErrors)))))

\* the model callback has the statements of the one in App.jsx
App_ComputeModel(in, errors) == ComputeModel(in, errors)

\* which panels the returned JSX holds: the results (with the consistency
\* note inside ResultsSection) and the chart for a valid model, and the
\* validation message for a non-empty errors object
App_Render(errors, m) ==
  [validationMessage |-> Cardinality(DOMAIN errors) # 0,
   results           |-> m # null /\ m.isValid,
   consistencyNote   |-> m # null /\ m.isValid /\ ~m.d1Consistent,
   chart             |-> m # null /\ m.isValid]

\* one render of App for the input record in
App(in) ==
  LET errors == App_validateInputs(in)
      m == App_ComputeModel(in, errors)
  IN  [inputErrors |-> errors, model |-> m, view |-> App_Render(errors, m)]

(***************************************************************************)
(* The version of the component in src/unnamed/part_000.  It holds the     *)
(* same four inputs with the same initial values, and each onChange stores *)
(* +e.target.value in its field, so it is read in the same states.  Its    *)
(* validation returns a list of messages and its model is computed by the  *)
(* function calculateImpliedGrowthRate.                                    *)
(***************************************************************************)
Part000_validateInputs(in) ==
  LET price == IF NumLt(in.marketPrice, Num(1, 1))
                    \/ NumGt(in.marketPrice, Num(500, 1))
               THEN <<"Market Price must be between $1 and $500">>
               ELSE <<>>
      dividend == IF NumLt(in.dividendAmount, Zero)
                       \/ NumGt(in.dividendAmount, Num(50, 1))
                  THEN <<"Dividend Amount must be between $0 and $50">>
                  ELSE <<>>
      return == IF NumLt(in.requiredReturn, Zero)
                     \/ NumGt(in.requiredReturn, Num(25, 1))
                THEN <<"Required Return must be between 0% and 25%">>
                ELSE <<>>
      expected == IF NumLt(in.expectedDividend, Zero)
                       \/ NumGt(in.expectedDividend, Num(50, 1))
                  THEN <<"Expected Dividend must be between $0 and $50">>
                  ELSE <<>>
  IN  price \o dividend \o return \o expected

\* the statements are those of the model callback of App.jsx, after its
\* null test
calculateImpliedGrowthRate(in) ==
  LET r == NumDiv(in.requiredReturn, Num(100, 1))
      d0 == in.dividendAmount
      d1 == in.expectedDividend
      price == in.marketPrice
      impliedGrowth == NumSub(r, NumDiv(d1, price))
      impliedGrowthPct == NumMul(impliedGrowth, Num(100, 1))
      calculatedD1 == NumMul(d0, NumAdd(One, impliedGrowth))
      d1Consistent == NumLt(NumAbs(NumSub(d1, calculatedD1)), Num(1, 100))
      powers == Powers(NumAdd(One, impliedGrowth), LastYear)
  IN  [impliedGrowth |-> impliedGrowthPct,
       cashflows     |-> CashflowLoop(0, <<>>, d0, price, powers),
       d1Consistent  |-> d1Consistent,
       calculatedD1  |-> calculatedD1,
       isValid       |-> NumLt(impliedGrowth, r) /\ NumGe(impliedGrowth, Zero)]

\* the model callback: null for a non-empty list of messages
Part000_model(in, errors) ==
  IF Len(errors) > 0 THEN null ELSE calculateImpliedGrowthRate(in)

(***************************************************************************)
(* Quantities the properties below are stated in, from the inputs alone.   *)
(* With P = marketPrice > 0, R = requiredReturn (percent), D1 =            *)
(* expectedDividend, r = R/100 and g = r - D1/P:                           *)
(*   Scale = 100 P,  ReturnScaled = 100 P r,  GrowthScaled = 100 P g.      *)
(***************************************************************************)
Hundred == Num(100, 1)
Scale == NumMul(Hundred, inputs.marketPrice)
ReturnScaled == NumMul(inputs.requiredReturn, inputs.marketPrice)
GrowthScaled == NumSub(ReturnScaled, NumMul(Hundred, inputs.expectedDividend))
OnePlusGrowthScaled == NumAdd(Scale, GrowthScaled)

Computed == model # null
Changed == inputs # InitialInputs

\* every field within its documented range
InRange ==
  /\ NumLe(Num(1, 1), inputs.marketPrice) /\ NumLe(inputs.marketPrice, Num(500, 1))
  /\ NumLe(Zero, inputs.dividendAmount) /\ NumLe(inputs.dividendAmount, Num(50, 1))
  /\ NumLt(Zero, inputs.requiredReturn) /\ NumLe(inputs.requiredReturn, Num(25, 1))
  /\ NumLe(Zero, inputs.expectedDividend)
  /\ NumLe(inputs.expectedDividend, Num(50, 1))

\* C1: whenever validation reports no error, the model is computed and its
\* impliedGrowth (percent) is 100 * (requiredReturn/100 - expectedDividend /
\* marketPrice); multiplied through by marketPrice:
\* impliedGrowth * P = R * P - 100 * D1.
C1_ImpliedGrowthIsReturnMinusYield ==
  DOMAIN inputErrors = {} =>
    /\ Computed
    /\ NumEq(NumMul(model.impliedGrowth, inputs.marketPrice), GrowthScaled)

C1_Witness ==
  /\ Changed
  /\ DOMAIN inputErrors = {}
  /\ NumGt(model.impliedGrowth, Zero)
  /\ NumEq(inputs.marketPrice, Num(500, 1))

\* C2: for every computed model, isValid holds exactly when 0 <= g < r;
\* multiplied through by 100 P > 0: 0 <= GrowthScaled < ReturnScaled.
C2_IsValidIffGrowthInRange ==
  Computed =>
    (model.isValid <=>
       NumLe(Zero, GrowthScaled) /\ NumLt(GrowthScaled, ReturnScaled))

\* g equal to r: the model is computed and is not valid
C2_Witness ==
  /\ Computed
  /\ NumEq(GrowthScaled, ReturnScaled)
  /\ ~model.isValid

\* C3: the model is computed exactly when validateInputs(inputs) is empty,
\* and then every field is in its range, so the divisor marketPrice is >= 1.
C3_ComputedIffValidated ==
  /\ Computed <=> DOMAIN validateInputs(inputs) = {}
  /\ Computed => InRange /\ NumGt(inputs.marketPrice, Zero)

C3_Witness ==
  /\ Computed
  /\ NumEq(inputs.marketPrice, Num(1, 1))
  /\ NumEq(inputs.requiredReturn, Num(25, 1))
  /\ NumEq(inputs.expectedDividend, Num(50, 1))

\* C4 (as claimed): every input record with g >= r, that is with
\* expectedDividend / marketPrice <= 0, is rejected by validation and has
\* no model.
C4_GrowthAtOrAboveReturnIsRejected ==
  (Truthy(inputs.marketPrice)
     /\ NumLe(NumDiv(inputs.expectedDividend, inputs.marketPrice), Zero)) =>
    /\ DOMAIN inputErrors # {}
    /\ ~Computed

\* C5: inputs within their ranges whose g is negative or at least r give
\* a computed model with isValid false, the validity warning, and no result
\* card, data table or chart; the warning appears only for a computed model
\* that is not valid.
C5_InvalidGrowthShowsWarningOnly ==
  /\ (InRange /\ (NumGe(GrowthScaled, ReturnScaled) \/ NumLt(GrowthScaled, Zero)))
       => /\ Computed
          /\ ~model.isValid
          /\ view.validityWarning
          /\ ~view.resultCard
          /\ ~view.dataTable
          /\ ~view.chart
  /\ view.validityWarning => Computed /\ ~model.isValid

C5_Witness ==
  /\ InRange
  /\ NumLt(GrowthScaled, Zero)
  /\ view.validityWarning
  /\ ~view.chart

\* C6: a computed model has exactly 11 cash flows, and the i-th of them is
\* the row of year i - 1: years 0 to 10 in order.
C6_ElevenCashflowsInYearOrder ==
  Computed =>
    /\ Len(model.cashflows) = 11
    /\ \A i \in 1..11 : model.cashflows[i].year = i - 1

C6_Witness ==
  /\ Changed
  /\ Computed
  /\ Len(model.cashflows) = 11
  /\ model.cashflows[11].year = 10

\* C7: in the rows of years 1 to 10 the dividend is D0 * (1 + g)^year, the
\* investment is 0 and the total is dividend + investment.  The power is
\* stated year by year: the dividend of year 1 is D0 * (1 + g) and each later
\* one is the one before times (1 + g), with 1 + g = OnePlusGrowthScaled /
\* Scale.
C7_DividendsGrowAtImpliedRate ==
  Computed =>
    \A y \in 1..10 :
      LET row == model.cashflows[y + 1]
          before == IF y = 1 THEN inputs.dividendAmount
                    ELSE model.cashflows[y].dividend
      IN  /\ NumEq(NumMul(row.dividend, Scale),
                   NumMul(before, OnePlusGrowthScaled))
          /\ NumEq(row.investment, Zero)
          /\ NumEq(row.total, NumAdd(row.dividend, row.investment))

C7_Witness ==
  /\ Changed
  /\ Computed
  /\ NumGt(inputs.dividendAmount, Zero)
  /\ NumGt(GrowthScaled, Zero)
  /\ NumGt(model.cashflows[11].dividend, model.cashflows[2].dividend)

\* C8: the row of year 0 has investment -marketPrice, dividend 0 and total
\* -marketPrice, which is its dividend plus its investment.
C8_YearZeroIsThePurchase ==
  Computed =>
    LET row == model.cashflows[1]
    IN  /\ row.year = 0
        /\ NumEq(NumAdd(row.investment, inputs.marketPrice), Zero)
        /\ NumEq(row.dividend, Zero)
        /\ NumEq(NumAdd(row.total, inputs.marketPrice), Zero)
        /\ NumEq(row.total, NumAdd(row.dividend, row.investment))

C8_Witness ==
  /\ Computed
  /\ NumEq(inputs.marketPrice, Num(100, 1))
  /\ NumEq(model.cashflows[1].investment, Num(-100, 1))

\* C9: calculatedD1 is D0 * (1 + g), and d1Consistent holds exactly when
\* expectedDividend and calculatedD1 differ by strictly less than 0.01 in
\* either direction.
C9_D1ConsistentWithinOneCent ==
  Computed =>
    LET diff == NumSub(inputs.expectedDividend, model.calculatedD1)
    IN  /\ NumEq(NumMul(model.calculatedD1, Scale),
                 NumMul(inputs.dividendAmount, OnePlusGrowthScaled))
        /\ model.d1Consistent <=>
             NumLt(Num(-1, 100), diff) /\ NumLt(diff, Num(1, 100))

\* a difference of exactly 0.01 is not consistent
C9_Witness ==
  /\ Computed
  /\ NumEq(NumSub(inputs.expectedDividend, model.calculatedD1), Num(1, 100))
  /\ ~model.d1Consistent

\* the render after all four fields have been edited, one change each
RenderAfterEdits(p, d0, r, d1) ==
  outputOf[SetInput(SetInput(SetInput(SetInput(inputs,
             "marketPrice", p), "dividendAmount", d0),
             "requiredReturn", r), "expectedDividend", d1)]

ResultsReachable ==
  \E p \in FieldTexts("marketPrice") : \E d0 \in FieldTexts("dividendAmount") :
    \E r \in FieldTexts("requiredReturn") :
      \E d1 \in FieldTexts("expectedDividend") :
        LET after == RenderAfterEdits(p, d0, r, d1)
        IN  after.model # null /\ after.model.isValid

\* C10: in every reachable state a change of each of the four fields, to any
\* text, can be taken, and four further changes lead to a state whose model
\* is computed and valid: no state locks the user out of results.
C10_AlwaysInteractive ==
  /\ \A field \in Fields : \A value \in FieldTexts(field) :
       ENABLED handleInputChange(field, value)
  /\ ResultsReachable

\* every field in error, and still editable
C10_Witness ==
  /\ Cardinality(DOMAIN inputErrors) = 4
  /\ \A field \in Fields : \E value \in FieldTexts(field) :
       ENABLED handleInputChange(field, value)

\* C11: after any sequence of input changes, the validation errors, the
\* model, the chart rows and the panels are those computed from the current
\* input record alone, whatever the earlier inputs and models were.
C11_RecomputedFromCurrentInputs ==
  LET errors == validateInputs(inputs)
      m == ComputeModel(inputs, errors)
  IN  /\ inputErrors = errors
      /\ model = m
      /\ chartData = ComputeChartData(m)
      /\ view = Render(errors, m)

\* every field edited since the start, and a model on display
C11_Witness ==
  /\ Computed
  /\ \A field \in Fields : ~NumEq(inputs[field], InitialInputs[field])

Mismatch ==
  NumGe(NumAbs(NumSub(NumMul(inputs.expectedDividend, Scale),
                      NumMul(inputs.dividendAmount, OnePlusGrowthScaled))),
        NumMul(Num(1, 100), Scale))

\* C13: a consistency mismatch is not an error.  In-range inputs with a
\* mismatch still give a model, with d1Consistent false and no validation
\* error; the result card, data table and chart are then shown exactly when
\* isValid holds, as without a mismatch; and the consistency note is shown
\* exactly when the model is computed and d1Consistent is false.
C13_MismatchIsOnlyANote ==
  /\ (InRange /\ Mismatch) =>
       /\ Computed
       /\ ~model.d1Consistent
       /\ DOMAIN inputErrors = {}
       /\ ~view.validationMessage
       /\ view.resultCard <=> model.isValid
       /\ view.dataTable <=> model.isValid
       /\ view.chart <=> model.isValid
  /\ view.consistencyNote <=> (Computed /\ ~model.d1Consistent)

\* the note and the results on display together
C13_Witness ==
  /\ Changed
  /\ InRange
  /\ Mismatch
  /\ view.consistencyNote
  /\ view.resultCard
  /\ view.chart

\* the note on display for a model that is not valid
C13_NoteWithoutResults ==
  /\ view.consistencyNote
  /\ view.validityWarning
  /\ ~view.resultCard

\* the input record of the initial state, written out
AtInitialValues ==
  /\ NumEq(inputs.marketPrice, Num(5456, 100))
  /\ NumEq(inputs.dividendAmount, Num(360, 100))
  /\ NumEq(inputs.requiredReturn, Num(740, 100))
  /\ NumEq(inputs.expectedDividend, Num(350, 100))

\* x rounds to n / d at the precision 1 / d: n/d - 1/(2d) <= x < n/d + 1/(2d)
RoundsTo(x, n, d) ==
  /\ NumLe(Num(2 * n - 1, 2 * d), x)
  /\ NumLt(x, Num(2 * n + 1, 2 * d))

\* C14 (amended): with the initial inputs 54.56, 3.60, 7.40, 3.50 validation
\* returns no errors and the model has g = 0.00985 to five decimals
\* (impliedGrowth 0.985 percent to three decimals), calculatedD1 = 3.6355 to
\* four decimals, d1Consistent false and isValid true.
C14_InitialExample ==
  AtInitialValues =>
    /\ DOMAIN inputErrors = {}
    /\ Computed
    /\ RoundsTo(NumDiv(model.impliedGrowth, Hundred), 985, 100000)
    /\ RoundsTo(model.impliedGrowth, 985, 1000)
    /\ RoundsTo(model.calculatedD1, 36355, 10000)
    /\ ~model.d1Consistent
    /\ model.isValid

C14_Witness ==
  /\ AtInitialValues
  /\ Computed
  /\ model.isValid
  /\ view.consistencyNote

\* C14 (as claimed): the same, with g = 0.00987 to five decimals and
\* impliedGrowth 0.987 percent to three decimals.
C14_InitialExampleAsClaimed ==
  AtInitialValues =>
    /\ DOMAIN inputErrors = {}
    /\ Computed
    /\ RoundsTo(NumDiv(model.impliedGrowth, Hundred), 987, 100000)
    /\ RoundsTo(model.impliedGrowth, 987, 1000)
    /\ RoundsTo(model.calculatedD1, 36355, 10000)
    /\ ~model.d1Consistent
    /\ model.isValid

\* expectedDividend = marketPrice * requiredReturn / 100 exactly
DividendEqualsRequiredYield ==
  NumEq(inputs.expectedDividend,
        NumDiv(NumMul(inputs.marketPrice, inputs.requiredReturn), Hundred))

\* C15: for in-range inputs with expectedDividend = marketPrice *
\* requiredReturn / 100 exactly, the model is computed with impliedGrowth 0
\* (g = 0) and isValid true, and the dividend of each year 1 to 10 is
\* dividendAmount.
C15_ZeroGrowthIsFlat ==
  (InRange /\ DividendEqualsRequiredYield) =>
    /\ Computed
    /\ NumEq(model.impliedGrowth, Zero)
    /\ model.isValid
    /\ \A y \in 1..10 :
         NumEq(model.cashflows[y + 1].dividend, inputs.dividendAmount)

C15_Witness ==
  /\ InRange
  /\ DividendEqualsRequiredYield
  /\ NumGt(inputs.dividendAmount, Zero)
  /\ view.resultCard
  /\ NumEq(model.cashflows[11].dividend, inputs.dividendAmount)

\* the labels of the years 0 to 10, written out
YearLabels ==
  << <<"0">>, <<"1">>, <<"2">>, <<"3">>, <<"4">>, <<"5">>, <<"6">>, <<"7">>,
     <<"8">>, <<"9">>, <<"1", "0">> >>

\* C16: chartData is empty when there is no model; otherwise it has 11 rows,
\* the i-th made from the i-th cash flow: yearLabel the decimal string of its
\* year, dividendFlow its dividend, investmentFlow its investment, and
\* growthLine the model's impliedGrowth, the same in every row.
C16_ChartDataMirrorsCashflows ==
  /\ ~Computed => chartData = <<>>
  /\ Computed =>
       /\ Len(chartData) = 11
       /\ Len(model.cashflows) = 11
       /\ \A i \in 1..11 :
            /\ chartData[i].yearLabel = YearLabels[i]
            /\ chartData[i].year = i - 1
            /\ model.cashflows[i].year = i - 1
            /\ NumEq(chartData[i].dividendFlow, model.cashflows[i].dividend)
            /\ NumEq(chartData[i].investmentFlow, model.cashflows[i].investment)
            /\ NumEq(chartData[i].growthLine, model.impliedGrowth)

C16_Witness ==
  /\ Changed
  /\ Computed
  /\ Len(chartData) = 11
  /\ chartData[11].yearLabel = <<"1", "0">>
  /\ NumGt(chartData[11].dividendFlow, Zero)
  /\ NumLt(chartData[1].investmentFlow, Zero)
  /\ ~NumEq(chartData[11].growthLine, Zero)

\* the message a field must carry, or none: from the ranges of the inputs
ExpectedMessages ==
  [marketPrice |->
     IF ~Truthy(inputs.marketPrice) \/ NumLt(inputs.marketPrice, Num(1, 1))
     THEN {"Market price must be at least $1"}
     ELSE IF NumGt(inputs.marketPrice, Num(500, 1))
     THEN {"Market price cannot exceed $500"} ELSE {},
   dividendAmount |->
     IF NumLt(inputs.dividendAmount, Zero)
     THEN {"Current dividend cannot be negative"}
     ELSE IF NumGt(inputs.dividendAmount, Num(50, 1))
     THEN {"Current dividend cannot exceed $50"} ELSE {},
   requiredReturn |->
     IF ~Truthy(inputs.requiredReturn) \/ NumLe(inputs.requiredReturn, Zero)
     THEN {"Required return must be positive"}
     ELSE IF NumGt(inputs.requiredReturn, Num(25, 1))
     THEN {"Required return cannot exceed 25%"} ELSE {},
   expectedDividend |->
     IF NumLt(inputs.expectedDividend, Zero)
     THEN {"Expected dividend cannot be negative"}
     ELSE IF NumGt(inputs.expectedDividend, Num(50, 1))
     THEN {"Expected dividend cannot exceed $50"} ELSE {}]

\* C17: each field's key is among the validation errors exactly when the
\* field is out of its range, then with the one message of the limit it
\* breaks; all the fields out of range are reported in the same result; and
\* any such error leaves no model.
C17_FieldErrorsIffOutOfRange ==
  /\ \A field \in Fields :
       /\ field \in DOMAIN inputErrors <=> ExpectedMessages[field] # {}
       /\ field \in DOMAIN inputErrors =>
            inputErrors[field] \in ExpectedMessages[field]
  /\ view.fieldErrors = {field \in Fields : ExpectedMessages[field] # {}}
  /\ (DOMAIN inputErrors \cap Fields # {}) => ~Computed

\* two fields out of range at once, the other two in range
C17_Witness ==
  /\ DOMAIN inputErrors = {"marketPrice", "expectedDividend"}
  /\ NumGt(inputs.marketPrice, Num(500, 1))
  /\ NumLt(inputs.expectedDividend, Zero)
  /\ ~Computed

\* C18: for in-range inputs with expectedDividend = 0, g equals r (the
\* impliedGrowth percent equals requiredReturn), validation returns no
\* errors, the model is computed with isValid false, and the user sees the
\* validity warning and no validation message.
C18_ZeroDividendTakesWarningPath ==
  (InRange /\ NumEq(inputs.expectedDividend, Zero)) =>
    /\ DOMAIN inputErrors = {}
    /\ Computed
    /\ NumEq(GrowthScaled, ReturnScaled)
    /\ NumEq(model.impliedGrowth, inputs.requiredReturn)
    /\ ~model.isValid
    /\ view.validityWarning
    /\ ~view.validationMessage

C18_Witness ==
  /\ InRange
  /\ NumEq(inputs.expectedDividend, Zero)
  /\ NumEq(inputs.requiredReturn, Num(25, 1))
  /\ view.validityWarning
  /\ ~view.validationMessage
  /\ ~view.resultCard

\* the number each text of the model denotes, written out
TextValue(value) ==
  CASE value = <<>> -> Zero
    [] value = <<"0", ".", "9", "9">> -> Num(99, 100)
    [] value = <<"1">> -> Num(1, 1)
    [] value = <<"1", "0", "0">> -> Num(100, 1)
    [] value = <<"5", "0", "0">> -> Num(500, 1)
    [] value = <<"5", "0", "0", ".", "0", "1">> -> Num(50001, 100)
    [] value = <<"-", "0", ".", "0", "1">> -> Num(-1, 100)
    [] value = <<"5", "0">> -> Num(50, 1)
    [] value = <<"5", "0", ".", "0", "1">> -> Num(5001, 100)
    [] value = <<"-", "1">> -> Num(-1, 1)
    [] value = <<"2", "5">> -> Num(25, 1)
    [] value = <<"2", "5", ".", "0", "1">> -> Num(2501, 100)

\* the number x lies outside the range of the field
OutOfRange(field, x) ==
  CASE field = "marketPrice" -> NumLt(x, Num(1, 1)) \/ NumGt(x, Num(500, 1))
    [] field = "dividendAmount" -> NumLt(x, Zero) \/ NumGt(x, Num(50, 1))
    [] field = "requiredReturn" -> NumLe(x, Zero) \/ NumGt(x, Num(25, 1))
    [] field = "expectedDividend" -> NumLt(x, Zero) \/ NumGt(x, Num(50, 1))

\* what a change of field to the text value must leave behind
StoredAsEntered(field, value) ==
  /\ NumEq(inputs'[field], TextValue(value))
  /\ \A other \in Fields \ {field} : inputs'[other] = inputs[other]
  /\ OutOfRange(field, TextValue(value)) =>
       /\ field \in DOMAIN output'.inputErrors
       /\ output'.model = null

\* C19: every step taken as handleInputChange(field, value) stores the number
\* the text denotes in that field, unclamped, leaves the other three fields
\* as they were, and, when the number is outside the field's range, has
\* validation report the field.
C19_StoresValueAsEntered ==
  [][\A field \in Fields : \A value \in FieldTexts(field) :
       handleInputChange(field, value) => StoredAsEntered(field, value)]_vars

\* an out-of-range number held in one field, the other three untouched
C19_Witness ==
  /\ NumEq(inputs.marketPrice, Num(50001, 100))
  /\ \A other \in Fields \ {"marketPrice"} : inputs[other] = InitialInputs[other]
  /\ "marketPrice" \in DOMAIN inputErrors

\* C20 (as claimed): in the part_001 version, whenever the model is computed
\* and isValid is false, some message is rendered: the validation message or
\* the consistency note, the only messages that version has.
C20_InvalidModelShowsAMessage ==
  LET app == App(inputs)
  IN  (app.model # null /\ ~app.model.isValid) =>
        (app.view.validationMessage \/ app.view.consistencyNote)

\* C21 (as claimed): in the part_000 version every input record with
\* requiredReturn = 0 or marketPrice <= 0 has a validation message and a null
\* model, so calculateImpliedGrowthRate is not called on it.
C21_ZeroReturnOrPriceIsRejected ==
  (~Truthy(inputs.requiredReturn) \/ NumLe(inputs.marketPrice, Zero)) =>
    LET errors == Part000_validateInputs(inputs)
    IN  /\ Len(errors) > 0
        /\ Part000_model(inputs, errors) = null

\* the guard of the financial check
FinancialGuard ==
  /\ NumGt(inputs.requiredReturn, Zero)
  /\ NumGt(inputs.expectedDividend, Zero)
  /\ NumGt(inputs.marketPrice, Zero)

\* C22: validateInputs never sets errors.financial, in App.jsx and in
\* part_001 alike: whenever the guard of the check holds, g is strictly
\* less than r (GrowthScaled < ReturnScaled), so the test g >= r fails.
C22_FinancialErrorUnreachable ==
  /\ "financial" \notin DOMAIN inputErrors
  /\ "financial" \notin DOMAIN App_validateInputs(inputs)
  /\ DOMAIN inputErrors \subseteq Fields
  /\ FinancialGuard => NumLt(GrowthScaled, ReturnScaled)

\* the check is tried, on inputs whose growth is invalid, and reports nothing
C22_Witness ==
  /\ FinancialGuard
  /\ InRange
  /\ NumLt(GrowthScaled, Zero)
  /\ DOMAIN inputErrors = {}

\* marketPrice * requiredReturn / 100: the dividend at which g = 0
RequiredYield ==
  NumDiv(NumMul(inputs.marketPrice, inputs.requiredReturn), Hundred)

\* C23: for inputs that pass validation, isValid holds exactly when
\* 0 < expectedDividend <= marketPrice * requiredReturn / 100, and it is the
\* same whatever in-range value dividendAmount is changed to.
C23_IsValidIffDividendWithinYield ==
  DOMAIN inputErrors = {} =>
    /\ Computed
    /\ model.isValid <=>
         /\ NumLt(Zero, inputs.expectedDividend)
         /\ NumLe(inputs.expectedDividend, RequiredYield)
    /\ \A d0 \in FieldTexts("dividendAmount") :
         LET other == outputOf[SetInput(inputs, "dividendAmount", d0)]
         IN  other.model # null => (other.model.isValid <=> model.isValid)

\* a valid model with no current dividend, strictly inside the limits
C23_Witness ==
  /\ DOMAIN inputErrors = {}
  /\ NumEq(inputs.dividendAmount, Zero)
  /\ NumLt(Zero, inputs.expectedDividend)
  /\ NumLt(inputs.expectedDividend, RequiredYield)
  /\ model.isValid

\* the three displays: the validation panel, the validity warning, the
\* results (result card, data table and chart together)
ShowsResults == view.resultCard /\ view.dataTable /\ view.chart
ShowsAnyResult == view.resultCard \/ view.dataTable \/ view.chart

\* C24: in every state exactly one of the three displays is shown: the
\* validation panel, exactly when there is no model; the validity warning,
\* exactly when the model is computed and not valid; the results with table
\* and chart, exactly when the model is computed and valid.
C24_ExactlyOneDisplay ==
  /\ view.validationMessage <=> ~Computed
  /\ view.validityWarning <=> (Computed /\ ~model.isValid)
  /\ ShowsResults <=> (Computed /\ model.isValid)
  /\ ShowsAnyResult => ShowsResults
  /\ Cardinality({d \in {"panel", "warning", "results"} :
       CASE d = "panel" -> view.validationMessage
         [] d = "warning" -> view.validityWarning
         [] d = "results" -> ShowsAnyResult}) = 1

\* the validation panel alone
C24_Witness ==
  /\ view.validationMessage
  /\ ~view.validityWarning
  /\ ~ShowsAnyResult
  /\ ~view.consistencyNote
  /\ ~Computed

\* the dividend of year y, 1 <= y <= 10
DividendOf(y) == model.cashflows[y + 1].dividend

\* C25: for a computed model with isValid true, the dividends of years 1 to
\* 10 are at least 0 and at least dividendAmount, each is at least the one
\* of the year before, and the dividend of year 1 is calculatedD1.
C25_ValidDividendsNeverFall ==
  (Computed /\ model.isValid) =>
    /\ \A y \in 1..10 :
         /\ NumGe(DividendOf(y), Zero)
         /\ NumGe(DividendOf(y), inputs.dividendAmount)
    /\ \A y \in 1..9 : NumGe(DividendOf(y + 1), DividendOf(y))
    /\ NumEq(DividendOf(1), model.calculatedD1)

\* strictly growing dividends from the largest current dividend
C25_Witness ==
  /\ Computed
  /\ model.isValid
  /\ NumEq(inputs.dividendAmount, Num(50, 1))
  /\ \A y \in 1..9 : NumGt(DividendOf(y + 1), DividendOf(y))

\* two cash-flow rows with the same year and equal amounts
SameRow(a, b) ==
  /\ a.year = b.year
  /\ NumEq(a.dividend, b.dividend)
  /\ NumEq(a.investment, b.investment)
  /\ NumEq(a.total, b.total)

\* two models equal in all five fields
SameModel(a, b) ==
  /\ NumEq(a.impliedGrowth, b.impliedGrowth)
  /\ Len(a.cashflows) = Len(b.cashflows)
  /\ \A i \in 1..Len(a.cashflows) : SameRow(a.cashflows[i], b.cashflows[i])
  /\ a.d1Consistent = b.d1Consistent
  /\ NumEq(a.calculatedD1, b.calculatedD1)
  /\ a.isValid = b.isValid

====
